---- MODULE Spec2Model ----
(***************************************************************************)
(* The optimizer stage of the Caide C++ inliner (src/src/optimizer.cpp):   *)
(* Optimizer::doOptimize drives one clang tool run per file; the consumer's *)
(* HandleTranslationUnit builds the dependency graph, computes the used    *)
(* set, prunes lexical declarations, merges namespaces, finalizes the      *)
(* preprocessor records, applies the edits and stores the result string.   *)
(*                                                                         *)
(* The passes whose classes live in other files of the repository          *)
(* (OptimizerVisitor, MergeNamespacesVisitor,                              *)
(* RemoveInactivePreprocessorBlocks, SmartRewriter) are modelled from the  *)
(* specification; the orchestration is modelled from optimizer.cpp.        *)
(***************************************************************************)
EXTENDS Integers, Sequences, FiniteSets, TLC

\* ------------------------------------------------------------------ bounds
\* Number of semantic (canonical) declarations of a translation unit.
NDecl == 2
\* Number of macro names.
NMacro == 1
\* The size of a translation unit, in features, is at most this (an edge, an
\* entry point or a compile error counts 1, a feature of the layout 3).
MaxSize == 5

Decls == 1..NDecl
Macros == 1..NMacro

\* ------------------------------------------------- the translation unit
\* The plain translation unit defines every declaration once in the main
\* file and has no dependency edge, no entry point, no macro, no
\* preprocessor branch. A translation unit departs from it in features.
\* Features of the graph: a dependency edge a -> b, an entry point, and a
\* compile error reported while parsing.
GraphFeatures ==
       {[k |-> "edge", a |-> x, b |-> {y}] : x \in Decls, y \in Decls}
  \cup {[k |-> "keep", a |-> x, b |-> {}] : x \in Decls}
  \cup {[k |-> "error", a |-> 0, b |-> {}]}

\* Features of the layout: a forward declaration, a declaration without
\* definition in the main file, a namespace block around a definition, a
\* macro defined and expanded in the bodies of the definitions b, an
\* inactive preprocessor branch inside a body (a = declaration) or at top
\* level (a = 0), a delayed-parsed function, whose body is well formed
\* (b empty) or malformed.
LayoutFeatures ==
       {[k |-> "fwd", a |-> x, b |-> {}] : x \in Decls}
  \cup {[k |-> "nodef", a |-> x, b |-> {}] : x \in Decls}
  \cup {[k |-> "ns", a |-> x, b |-> {}] : x \in Decls}
  \cup {[k |-> "macro", a |-> m, b |-> S] : m \in Macros, S \in SUBSET Decls}
  \cup {[k |-> "branch", a |-> x, b |-> {}] : x \in 0..NDecl}
  \cup {[k |-> "delayed", a |-> x, b |-> {}] : x \in Decls}
  \cup {[k |-> "delayed", a |-> x, b |-> {x}] : x \in Decls}

RECURSIVE UpTo(_, _)
\* The subsets of S of at most n elements.
UpTo(S, n) ==
  IF n <= 0 THEN {{}}
  ELSE LET P == UpTo(S, n - 1) IN P \cup {s \cup {x} : s \in P, x \in S}

\* The feature sets of size at most n.
FeatureSets(n) ==
  UNION {{g \cup l : g \in UpTo(GraphFeatures, n - 3 * Cardinality(l))} :
           l \in UpTo(LayoutFeatures, n \div 3)}

Has(fs, kind, x) == \E ft \in fs : ft.k = kind /\ ft.a = x

\* The definitions in whose body macro m expands.
SitesOf(fs, m) == UNION {ft.b : ft \in {t \in fs : t.k = "macro" /\ t.a = m}}

\* What the parser accepts as one translation unit: a macro is defined once
\* and expands only in preprocessed text, a namespace block holds a
\* definition and no forward declaration of it is outside the block, a
\* delayed-parsed function has a definition.
WellFormed(fs) ==
  /\ \A m \in Macros :
       /\ Cardinality({t \in fs : t.k = "macro" /\ t.a = m}) <= 1
       /\ \A x \in SitesOf(fs, m) : ~Has(fs, "branch", x)
  /\ \A x \in Decls :
       /\ Has(fs, "ns", x) => ~Has(fs, "nodef", x) /\ ~Has(fs, "fwd", x)
       /\ Has(fs, "delayed", x) => ~Has(fs, "nodef", x)
       /\ Cardinality({t \in fs : t.k = "delayed" /\ t.a = x}) <= 1

\* The translation unit with features fs, as the collaborator presents it.
MakeFile(fs) ==
  [ uses     |-> [x \in Decls |-> {y \in Decls : [k |-> "edge", a |-> x, b |-> {y}] \in fs}],
    keep     |-> {x \in Decls : Has(fs, "keep", x)},
    fwd      |-> {x \in Decls : Has(fs, "fwd", x)},
    def      |-> {x \in Decls : ~Has(fs, "nodef", x)},
    ns       |-> {x \in Decls : Has(fs, "ns", x)},
    macros   |-> {m \in Macros : Has(fs, "macro", m)},
    sites    |-> [m \in Macros |-> SitesOf(fs, m)],
    branches |-> {x \in 0..NDecl : Has(fs, "branch", x)},
    delayed  |-> {x \in Decls : Has(fs, "delayed", x)},
    malformed |-> {x \in Decls : [k |-> "delayed", a |-> x, b |-> {x}] \in fs},
    error    |-> Has(fs, "error", 0) ]

Files == {MakeFile(fs) : fs \in {s \in FeatureSets(MaxSize) : WellFormed(s)}}

NoFile == MakeFile({})

\* --------------------------------------------------- layout of the buffer
\* Declaration x owns six bytes: its forward declaration, the opening of its
\* namespace block, the three bytes (head, body, tail) of its definition,
\* and the closing of the block. The macro definitions follow, then the
\* top-level preprocessor branch. Bytes of absent features are plain text.
FwdPos(x) == 6 * (x - 1) + 1
NsOpen(x) == 6 * (x - 1) + 2
DefLo(x) == 6 * (x - 1) + 3
BodyPos(x) == 6 * (x - 1) + 4
DefHi(x) == 6 * (x - 1) + 5
NsClose(x) == 6 * (x - 1) + 6
MacroPos(m) == 6 * NDecl + m
TopBranchPos == 6 * NDecl + NMacro + 1
BufLen == 6 * NDecl + NMacro + 1

\* The main file's buffer: one distinct byte per offset.
MainBuffer == [p \in 1..BufLen |-> p]

\* Source ranges, in original-buffer offsets.
FwdRange(x) == <<FwdPos(x), FwdPos(x)>>
DefRange(x) == <<DefLo(x), DefHi(x)>>
NsRange(x) == <<NsOpen(x), NsClose(x)>>
MacroRange(m) == <<MacroPos(m), MacroPos(m)>>
BranchRange(x) == IF x = 0 THEN <<TopBranchPos, TopBranchPos>> ELSE <<BodyPos(x), BodyPos(x)>>

\* Lexical declarations (clang::Decl nodes): a forward declaration or the
\* definition of a semantic declaration, or its declaration in a system
\* header when the main file holds none.
LexDecl(x, kind) == [decl |-> x, kind |-> kind]

\* Decl::getCanonicalDecl: the semantic declaration of a lexical one.
getCanonicalDecl(lex) == lex.decl

\* The lexical declarations of the main file, in source order.
Occurrences(f) ==
  {LexDecl(x, "fwd") : x \in f.fwd} \cup {LexDecl(x, "def") : x \in f.def}

\* The lexical declaration the collector meets for an entry point.
EntryLex(f, x) ==
  IF x \in f.def THEN LexDecl(x, "def")
  ELSE IF x \in f.fwd THEN LexDecl(x, "fwd") ELSE LexDecl(x, "sys")

OccRange(lex) == IF lex.kind = "fwd" THEN FwdRange(lex.decl) ELSE DefRange(lex.decl)

\* ------------------------------------------------------------- the state
VARIABLES
  cmdLineOptions,   \* Optimizer::cmdLineOptions
  macrosToKeep,     \* Optimizer::macrosToKeep
  pc,               \* position in doOptimize / HandleTranslationUnit
  file,             \* the translation unit of cppFile
  ppKeep,           \* RemoveInactivePreprocessorBlocks: its keep-list
  ppBranches,       \* ... the inactive branches recorded by the callbacks
  ppMacros,         \* ... the macros recorded: name -> expansion sites
  uses,             \* srcInfo.uses
  declsToKeep,      \* srcInfo.declsToKeep
  delayedParsedFunctions, \* srcInfo.delayedParsedFunctions
  suppress,         \* DiagnosticsEngine: suppress all diagnostics
  reported,         \* DiagnosticsEngine: a forced parse reported an error
  toParse,          \* functions the forced-parse loop has not reached yet
  parsed,           \* functions whose body has been parsed
  queue,            \* the worklist of step 2
  used,             \* the used set
  removedDecls,     \* the removed set
  edits,            \* SmartRewriter: the delete edits scheduled, in order
  rewriteBuf,       \* SmartRewriter: the rewrite buffer of the main file
  bufValid,         \* SourceManager::getBuffer delivered the main buffer
  result,           \* the result string of doOptimize
  ret,              \* what tool.run returned
  outcome,          \* how doOptimize ended: "returned" / "thrown"
  returned,         \* the string doOptimize returned
  log               \* the steps of HandleTranslationUnit taken in this call, in order

vars == <<cmdLineOptions, macrosToKeep, pc, file, ppKeep, ppBranches,
          ppMacros, uses, declsToKeep, delayedParsedFunctions, suppress, reported, toParse,
          parsed, queue, used, removedDecls, edits, rewriteBuf, bufValid, result,
          ret, outcome, returned, log>>

\* The Optimizer's fields and the call's input: no step of a run writes them.
optimizerVars == <<cmdLineOptions, macrosToKeep>>

\* ------------------------------------------------------------- strings
\* The empty std::string.
EmptyString == <<>>

\* The literal "Inliner error", as character codes.
InlinerError == <<73, 110, 108, 105, 110, 101, 114, 32, 101, 114, 114, 111, 114>>

\* A null RewriteBuffer pointer / a rewrite buffer holding text.
NoRewriteBuf == [has |-> FALSE, text |-> <<>>]
RewriteBufOf(text) == [has |-> TRUE, text |-> text]

\* ------------------------------------------------------ constructor inputs
\* The command lines a caller passes: one the compilation database and the
\* tool accept, one they reject.
CmdLines == {<<"-std=c++11">>, <<"-bogus">>}
ValidCmdLine(opts) == \A i \in 1..Len(opts) : opts[i] # "-bogus"

\* The keep-list vectors a caller passes (with repetitions).
KeepVectors == UNION {[1..n -> Macros] : n \in 0..(NMacro + 1)}

\* std::set<string>(v.begin(), v.end())
SetOfVector(v) == {v[i] : i \in 1..Len(v)}

\* ------------------------------------------------------------- ranges
RangeLess(r, s) == r[1] < s[1] \/ (r[1] = s[1] /\ r[2] < s[2])

RECURSIVE SortRanges(_)
\* The ranges of S in source order.
SortRanges(S) ==
  IF S = {} THEN <<>>
  ELSE LET m == CHOOSE r \in S : \A s \in S \ {r} : RangeLess(r, s)
       IN <<m>> \o SortRanges(S \ {m})

\* Offset p lies inside one of the scheduled removals es.
Covered(p, es) == \E i \in 1..Len(es) : es[i][1] <= p /\ p <= es[i][2]

\* ---------------------------------------------------------- reachability
\* Line 130-131: the targets pushed after used.insert(decl): the outgoing
\* edges, and only when the insertion was the first one.
PushOnAll(decl, usedSet, g) == g[decl]
PushNothing(decl, usedSet, g) == {}
Pushed(decl, usedSet, g) == IF decl \notin usedSet THEN g[decl] ELSE {}

\* Line 124-125: the worklist seeded with the canonical entry points.
SeedQueue(keep) == {getCanonicalDecl(lex) : lex \in keep}

\* ------------------------------------------------------- Lexical Pruner
\* OptimizerVisitor: whether the occurrence lex is deleted. An occurrence of
\* an unused declaration is; of a used one, a forward declaration that a
\* full definition in the main file makes redundant.
PrunerRemoves(f, usedSet, lex) ==
  IF getCanonicalDecl(lex) \notin usedSet THEN TRUE
  ELSE lex.kind = "fwd" /\ lex.decl \in f.def

PrunerEdits(f, usedSet) ==
  SortRanges({OccRange(lex) : lex \in {o \in Occurrences(f) : PrunerRemoves(f, usedSet, o)}})

\* The canonical declarations the pruner records as removed.
PrunerRemoved(f, usedSet) ==
  {getCanonicalDecl(lex) : lex \in {o \in Occurrences(f) : getCanonicalDecl(o) \notin usedSet}}

\* OptimizerVisitor::Finalize: repairs of what removal left dangling. The
\* ranges of this layout carry their separators: nothing dangles.
PrunerFinalizeEdits(f, removed) == <<>>

\* ----------------------------------------------------- Namespace Merger
\* MergeNamespacesVisitor: the namespace blocks removal left empty.
MergerEdits(f, removed) ==
  SortRanges({NsRange(x) : x \in {y \in f.ns : y \in removed}})

\* -------------------------------------------- Preprocessor Block Tracker
\* The records the callbacks make while the file is scanned.
RecordedBranches(f) == f.branches
RecordedMacros(f) == [m \in f.macros |-> f.sites[m]]

\* Finalize, part 1: the inactive branches not yet removed.
BranchEdits(branches, es) ==
  SortRanges({BranchRange(b) : b \in {c \in branches : ~Covered(BranchRange(c)[1], es)}})

\* Finalize, part 2: a macro is dead when it is not in the keep-list and
\* every recorded expansion lies in removed text.
DeadMacro(m, sites, keep, es) ==
  /\ m \notin keep
  /\ \A x \in sites : Covered(BodyPos(x), es)

MacroEdits(macros, keep, es) ==
  SortRanges({MacroRange(m) : m \in {n \in DOMAIN macros : DeadMacro(n, macros[n], keep, es)}})

PPFinalizeEdits(branches, macros, keep, es) ==
  BranchEdits(branches, es) \o MacroEdits(macros, keep, es)

\* ----------------------------------------------------------- Edit Applier
Max(a, b) == IF a >= b THEN a ELSE b

RECURSIVE MergeSorted(_, _)
\* Overlapping ranges of the sorted list s merged into the disjoint list acc.
MergeSorted(acc, s) ==
  IF s = <<>> THEN acc
  ELSE LET r == Head(s)
           n == Len(acc)
       IN IF n > 0 /\ r[1] <= acc[n][2]
          THEN MergeSorted([acc EXCEPT ![n] = <<acc[n][1], Max(acc[n][2], r[2])>>], Tail(s))
          ELSE MergeSorted(Append(acc, r), Tail(s))

\* The ranges sorted and left as they are.
SortOnly(es) == SortRanges({es[i] : i \in 1..Len(es)})

MergeRanges(es) == MergeSorted(<<>>, SortRanges({es[i] : i \in 1..Len(es)}))

RECURSIVE Cut(_, _)
\* The disjoint sorted ranges ms cut out of buf, last range first, so that
\* the offsets of the ranges still to cut stay those of the original.
Cut(buf, ms) ==
  IF ms = <<>> THEN buf
  ELSE LET r == ms[Len(ms)]
       IN Cut(SubSeq(buf, 1, r[1] - 1) \o SubSeq(buf, r[2] + 1, Len(buf)),
              SubSeq(ms, 1, Len(ms) - 1))

\* SmartRewriter::applyChanges: no rewrite buffer comes to exist without an
\* edit.
ApplyChanges(buf, es) ==
  IF es = <<>> THEN NoRewriteBuf ELSE RewriteBufOf(Cut(buf, MergeRanges(es)))

\* ------------------------------------------------------------- getResult
getResultRewriteOnly(rb, bufOk, buf) == rb.text

\* Lines 161-173.
getResult(rb, bufOk, buf) ==
  IF rb.has THEN rb.text
  ELSE IF bufOk THEN buf
  ELSE InlinerError

\* ------------------------------------------------------------ construction
\* Line 240: string result;
NewResult(previous) == EmptyString

\* Lines 199-204: the rewriter, the preprocessor callbacks with the keep-list
\* of the Optimizer, the consumer with an empty SourceInfo.
KeepListDropped(keep) == {}
KeepListGiven(keep) == keep

\* Optimizer::Optimizer (lines 225-229).
Init ==
  /\ cmdLineOptions \in CmdLines
  /\ \E v \in KeepVectors : macrosToKeep = SetOfVector(v)
  /\ pc = "idle"
  /\ file = NoFile
  /\ ppKeep = {}
  /\ ppBranches = {}
  /\ ppMacros = <<>>
  /\ uses = [x \in Decls |-> {}]
  /\ declsToKeep = {}
  /\ delayedParsedFunctions = {}
  /\ suppress = FALSE
  /\ reported = FALSE
  /\ toParse = {}
  /\ parsed = {}
  /\ queue = {}
  /\ used = {}
  /\ removedDecls = {}
  /\ edits = <<>>
  /\ rewriteBuf = NoRewriteBuf
  /\ bufValid = TRUE
  /\ result = EmptyString
  /\ ret = 0
  /\ outcome = "none"
  /\ returned = EmptyString
  /\ log = <<>>

\* The objects of a run that HandleTranslationUnit and the passes work on.
consumerVars == <<ppKeep, ppBranches, ppMacros, uses, declsToKeep,
                  delayedParsedFunctions, suppress, reported, toParse, parsed, queue, used,
                  removedDecls, edits, rewriteBuf, bufValid>>

\* Lines 231-241: doOptimize is entered for cppFile and constructs its
\* locals.
DoOptimizeBegin ==
  /\ pc \in {"idle", "ready"}
  /\ pc' = "run"
  /\ \E f \in Files : file' = f
  /\ result' = NewResult(result)
  /\ ret' = 0
  /\ outcome' = "none"
  /\ returned' = EmptyString
  /\ log' = <<>>
  /\ UNCHANGED <<optimizerVars, consumerVars>>

\* Line 243, tool.run: the tool cannot set up a compilation for the command
\* line; no action is created, the run reports failure.
ToolRunSetupFails ==
  /\ pc = "run"
  /\ ~ValidCmdLine(cmdLineOptions)
  /\ ret' = 1
  /\ pc' = "check"
  /\ UNCHANGED <<optimizerVars, log, file, consumerVars, result, outcome, returned>>

\* Line 243, tool.run: the compilation is set up and the action created
\* (lines 219-221).
ToolRunSetup ==
  /\ pc = "run"
  /\ ValidCmdLine(cmdLineOptions)
  /\ pc' = "create"
  /\ UNCHANGED <<optimizerVars, log, file, consumerVars, result, ret, outcome, returned>>

\* Lines 197-198: the compiler has no source manager; the throw leaves
\* tool.run and doOptimize.
CreateASTConsumerThrows ==
  /\ pc = "create"
  /\ outcome' = "No source manager"
  /\ pc' = "done"
  /\ UNCHANGED <<optimizerVars, log, file, consumerVars, result, ret, returned>>

\* Lines 199-206.
CreateASTConsumer ==
  /\ pc = "create"
  /\ ppKeep' = KeepListGiven(macrosToKeep)
  /\ edits' = <<>>
  /\ rewriteBuf' = NoRewriteBuf
  /\ pc' = "parse"
  /\ UNCHANGED <<optimizerVars, log, file, ppBranches, ppMacros, uses, declsToKeep,
                 delayedParsedFunctions, suppress, reported, toParse, parsed, queue, used,
                 removedDecls, bufValid, result, ret, outcome, returned>>

\* The collaborator scans and parses the file; the preprocessor callbacks
\* registered at line 205 record branches and macros meanwhile.
Parse ==
  /\ pc = "parse"
  /\ ppBranches' = RecordedBranches(file)
  /\ ppMacros' = RecordedMacros(file)
  /\ pc' = "collect"
  /\ UNCHANGED <<optimizerVars, log, file, ppKeep, uses, declsToKeep,
                 delayedParsedFunctions, suppress, reported, toParse, parsed, queue, used,
                 removedDecls, edits, rewriteBuf, bufValid, result, ret, outcome, returned>>

\* Lines 99-100: the DependenciesCollector fills srcInfo.
Collect ==
  /\ pc = "collect"
  /\ uses' = file.uses
  /\ declsToKeep' = {EntryLex(file, x) : x \in file.keep}
  /\ delayedParsedFunctions' = file.delayed
  /\ pc' = "suppressOn"
  /\ log' = Append(log, "collect")
  /\ UNCHANGED <<optimizerVars, file, ppKeep, ppBranches, ppMacros, suppress,
                 reported, toParse, parsed, queue, used, removedDecls, edits, rewriteBuf, bufValid,
                 result, ret, outcome, returned>>

\* Line 107 left out: the forced parses run with diagnostics as they were.
SuppressOnSkipped ==
  /\ pc = "suppressOn"
  /\ toParse' = delayedParsedFunctions
  /\ pc' = "forceParse"
  /\ log' = Append(log, "suppressOn")
  /\ UNCHANGED <<optimizerVars, reported, suppress, file, ppKeep, ppBranches, ppMacros,
                 uses, declsToKeep, delayedParsedFunctions, parsed, queue, used,
                 removedDecls, edits, rewriteBuf, bufValid, result, ret, outcome, returned>>

\* Lines 106-107.
SuppressOn ==
  /\ pc = "suppressOn"
  /\ suppress' = TRUE
  /\ toParse' = delayedParsedFunctions
  /\ pc' = "forceParse"
  /\ log' = Append(log, "suppressOn")
  /\ UNCHANGED <<optimizerVars, reported, file, ppKeep, ppBranches, ppMacros, uses,
                 declsToKeep, delayedParsedFunctions, parsed, queue, used, removedDecls,
                 edits, rewriteBuf, bufValid, result, ret, outcome, returned>>

\* What the DiagnosticsEngine makes of an error diagnostic: it is dropped
\* while all diagnostics are suppressed, reported and counted otherwise.
Reported(raised, suppressed) == raised /\ ~suppressed

\* Lines 108-111: one iteration of the forced-parse loop. Parsing a malformed
\* body raises an error diagnostic.
ForceParse ==
  /\ pc = "forceParse"
  /\ \E f \in toParse :
       /\ toParse' = toParse \ {f}
       /\ parsed' = parsed \cup {f}
       /\ reported' = (reported \/ Reported(f \in file.malformed, suppress))
  /\ UNCHANGED <<optimizerVars, log, pc, file, ppKeep, ppBranches, ppMacros, uses,
                 declsToKeep, delayedParsedFunctions, suppress, queue, used, removedDecls,
                 edits, rewriteBuf, bufValid, result, ret, outcome, returned>>

\* Line 112 moved into the loop's last iteration: without a forced parse the
\* suppression stays as line 107 set it.
SuppressOffAfterParse ==
  /\ pc = "forceParse"
  /\ toParse = {}
  /\ suppress' = (parsed = {})
  /\ pc' = "seed"
  /\ log' = Append(log, "suppressOff")
  /\ UNCHANGED <<optimizerVars, reported, file, ppKeep, ppBranches, ppMacros, uses,
                 declsToKeep, delayedParsedFunctions, toParse, parsed, queue, used,
                 removedDecls, edits, rewriteBuf, bufValid, result, ret, outcome, returned>>

\* Line 112.
SuppressOff ==
  /\ pc = "forceParse"
  /\ toParse = {}
  /\ suppress' = FALSE
  /\ pc' = "seed"
  /\ log' = Append(log, "suppressOff")
  /\ UNCHANGED <<optimizerVars, reported, file, ppKeep, ppBranches, ppMacros, uses,
                 declsToKeep, delayedParsedFunctions, toParse, parsed, queue, used,
                 removedDecls, edits, rewriteBuf, bufValid, result, ret, outcome, returned>>

\* Lines 121-125.
Seed ==
  /\ pc = "seed"
  /\ used' = {}
  /\ queue' = SeedQueue(declsToKeep)
  /\ pc' = "reach"
  /\ log' = Append(log, "reach")
  /\ UNCHANGED <<optimizerVars, file, ppKeep, ppBranches, ppMacros, uses,
                 declsToKeep, delayedParsedFunctions, suppress, reported, toParse, parsed,
                 removedDecls, edits, rewriteBuf, bufValid, result, ret, outcome, returned>>

\* Lines 127-132, one iteration. The set orders Decl pointers by address:
\* which element is the smallest is the allocator's choice, so every element
\* of the worklist may be the one popped.
ReachStep ==
  /\ pc = "reach"
  /\ \E decl \in queue :
       /\ used' = used \cup {decl}
       /\ queue' = (queue \ {decl}) \cup Pushed(decl, used, uses)
  /\ UNCHANGED <<optimizerVars, log, pc, file, ppKeep, ppBranches, ppMacros, uses,
                 declsToKeep, delayedParsedFunctions, suppress, reported, toParse, parsed,
                 removedDecls, edits, rewriteBuf, bufValid, result, ret, outcome, returned>>

\* Line 127 (the loop ends) and line 136.
ReachDone ==
  /\ pc = "reach"
  /\ queue = {}
  /\ removedDecls' = {}
  /\ pc' = "prune"
  /\ UNCHANGED <<optimizerVars, log, file, ppKeep, ppBranches, ppMacros, uses,
                 declsToKeep, delayedParsedFunctions, suppress, reported, toParse, parsed, queue,
                 used, edits, rewriteBuf, bufValid, result, ret, outcome, returned>>

\* Lines 138-139: the Lexical Pruner's walk.
PruneTraverse ==
  /\ pc = "prune"
  /\ edits' = edits \o PrunerEdits(file, used)
  /\ removedDecls' = removedDecls \cup PrunerRemoved(file, used)
  /\ pc' = "pruneFinalize"
  /\ log' = Append(log, "prune")
  /\ UNCHANGED <<optimizerVars, file, ppKeep, ppBranches, ppMacros, uses,
                 declsToKeep, delayedParsedFunctions, suppress, reported, toParse, parsed, queue,
                 used, rewriteBuf, bufValid, result, ret, outcome, returned>>

\* Line 140.
PruneFinalize ==
  /\ pc = "pruneFinalize"
  /\ edits' = edits \o PrunerFinalizeEdits(file, removedDecls)
  /\ pc' = "merge"
  /\ log' = Append(log, "pruneFinalize")
  /\ UNCHANGED <<optimizerVars, file, ppKeep, ppBranches, ppMacros, uses,
                 declsToKeep, delayedParsedFunctions, suppress, reported, toParse, parsed, queue,
                 used, removedDecls, rewriteBuf, bufValid, result, ret, outcome, returned>>

\* A merger that revises the removed set it is given by reference at line
\* 143: it takes the declarations of the namespaces it closes out of the set.
MergeNamespacesRevising ==
  /\ pc = "merge"
  /\ edits' = edits \o MergerEdits(file, removedDecls)
  /\ removedDecls' = {}
  /\ pc' = "ppFinalize"
  /\ log' = Append(log, "merge")
  /\ UNCHANGED <<optimizerVars, file, ppKeep, ppBranches, ppMacros, uses,
                 declsToKeep, delayedParsedFunctions, suppress, reported, toParse, parsed,
                 queue, used, rewriteBuf, bufValid, result, ret, outcome, returned>>

\* Lines 142-145.
MergeNamespaces ==
  /\ pc = "merge"
  /\ edits' = edits \o MergerEdits(file, removedDecls)
  /\ pc' = "ppFinalize"
  /\ log' = Append(log, "merge")
  /\ UNCHANGED <<optimizerVars, file, ppKeep, ppBranches, ppMacros, uses,
                 declsToKeep, delayedParsedFunctions, suppress, reported, toParse, parsed, queue,
                 used, removedDecls, rewriteBuf, bufValid, result, ret, outcome, returned>>

\* The Finalize of line 153 moved up to line 140, before the pruner's
\* Finalize and the merger.
PPFinalizeEarly ==
  /\ pc = "pruneFinalize"
  /\ edits' = edits \o PPFinalizeEdits(ppBranches, ppMacros, ppKeep, edits)
  /\ pc' = "apply"
  /\ log' = Append(log, "ppFinalize")
  /\ UNCHANGED <<optimizerVars, file, ppKeep, ppBranches, ppMacros, uses,
                 declsToKeep, delayedParsedFunctions, suppress, reported, toParse, parsed, queue,
                 used, removedDecls, rewriteBuf, bufValid, result, ret, outcome, returned>>

\* Line 153.
PPFinalize ==
  /\ pc = "ppFinalize"
  /\ edits' = edits \o PPFinalizeEdits(ppBranches, ppMacros, ppKeep, edits)
  /\ pc' = "apply"
  /\ log' = Append(log, "ppFinalize")
  /\ UNCHANGED <<optimizerVars, file, ppKeep, ppBranches, ppMacros, uses,
                 declsToKeep, delayedParsedFunctions, suppress, reported, toParse, parsed, queue,
                 used, removedDecls, rewriteBuf, bufValid, result, ret, outcome, returned>>

\* The applyChanges of line 155 moved up to line 153, before the preprocessor
\* Finalize, which then emits into a list already consumed.
ApplyChangesEarly ==
  \/ /\ pc = "ppFinalize"
     /\ rewriteBuf' = ApplyChanges(MainBuffer, edits)
     /\ pc' = "apply"
     /\ log' = Append(log, "apply")
     /\ UNCHANGED <<optimizerVars, file, ppKeep, ppBranches, ppMacros, uses,
                    declsToKeep, delayedParsedFunctions, suppress, reported, toParse, parsed, queue,
                    used, removedDecls, edits, bufValid, result, ret, outcome, returned>>
  \/ /\ pc = "apply"
     /\ edits' = edits \o PPFinalizeEdits(ppBranches, ppMacros, ppKeep, edits)
     /\ pc' = "getResult"
     /\ log' = Append(log, "ppFinalize")
     /\ UNCHANGED <<optimizerVars, file, ppKeep, ppBranches, ppMacros, uses,
                    declsToKeep, delayedParsedFunctions, suppress, reported, toParse, parsed, queue,
                    used, removedDecls, rewriteBuf, bufValid, result, ret, outcome, returned>>

\* Line 155.
ApplyChangesStep ==
  /\ pc = "apply"
  /\ rewriteBuf' = ApplyChanges(MainBuffer, edits)
  /\ pc' = "getResult"
  /\ log' = Append(log, "apply")
  /\ UNCHANGED <<optimizerVars, file, ppKeep, ppBranches, ppMacros, uses,
                 declsToKeep, delayedParsedFunctions, suppress, reported, toParse, parsed, queue,
                 used, removedDecls, edits, bufValid, result, ret, outcome, returned>>

\* Line 157: result = getResult(). Whether the source manager delivers the
\* main file's buffer is the collaborator's answer.
GetResultStep ==
  /\ pc = "getResult"
  /\ \E ok \in BOOLEAN :
       /\ bufValid' = ok
       /\ result' = getResult(rewriteBuf, ok, MainBuffer)
  /\ pc' = "endRun"
  /\ log' = Append(log, "getResult")
  /\ UNCHANGED <<optimizerVars, file, ppKeep, ppBranches, ppMacros, uses,
                 declsToKeep, delayedParsedFunctions, suppress, reported, toParse, parsed, queue,
                 used, removedDecls, edits, rewriteBuf, ret, outcome, returned>>

\* Line 243: tool.run returns, non-zero when the compilation reported an
\* error, while parsing the file or in a forced parse. The collaborator hands
\* the translation unit to the consumer whether or not the parse reported
\* errors.
RunStatus(f) == IF f.error THEN 1 ELSE 0

ToolRunEnd ==
  /\ pc = "endRun"
  /\ ret' = IF reported THEN 1 ELSE RunStatus(file)
  /\ pc' = "check"
  /\ UNCHANGED <<optimizerVars, log, file, consumerVars, result, outcome, returned>>

\* Lines 244-247.
ThrowsOnNegative(r) == r < 0
ThrowsOn(r) == r # 0

DoOptimizeEnd ==
  /\ pc = "check"
  /\ IF ThrowsOn(ret)
     THEN outcome' = "Compilation error" /\ returned' = returned
     ELSE outcome' = "returned" /\ returned' = result
  /\ pc' = "done"
  /\ UNCHANGED <<optimizerVars, log, file, consumerVars, result, ret>>

\* What is left of an object of a call once doOptimize has ended: the tool,
\* the factory, the action, the consumer and the result string are local to
\* the call (lines 232-241, 199-204, 121-136) and end with it.
Leaked(previous, fresh) == previous
LeftBehind(previous, fresh) == fresh

\* The call has ended and its outcome is with the caller.
DoOptimizeLeave ==
  /\ pc = "done"
  /\ pc' = "ready"
  /\ file' = NoFile
  /\ outcome' = "none"
  /\ returned' = EmptyString
  /\ ret' = 0
  /\ log' = <<>>
  /\ result' = LeftBehind(result, EmptyString)
  /\ ppKeep' = LeftBehind(ppKeep, {})
  /\ ppBranches' = LeftBehind(ppBranches, {})
  /\ ppMacros' = LeftBehind(ppMacros, <<>>)
  /\ uses' = LeftBehind(uses, [x \in Decls |-> {}])
  /\ declsToKeep' = LeftBehind(declsToKeep, {})
  /\ delayedParsedFunctions' = LeftBehind(delayedParsedFunctions, {})
  /\ suppress' = LeftBehind(suppress, FALSE)
  /\ reported' = LeftBehind(reported, FALSE)
  /\ toParse' = LeftBehind(toParse, {})
  /\ parsed' = LeftBehind(parsed, {})
  /\ queue' = LeftBehind(queue, {})
  /\ used' = LeftBehind(used, {})
  /\ removedDecls' = LeftBehind(removedDecls, {})
  /\ edits' = LeftBehind(edits, <<>>)
  /\ rewriteBuf' = LeftBehind(rewriteBuf, NoRewriteBuf)
  /\ bufValid' = LeftBehind(bufValid, TRUE)
  /\ UNCHANGED optimizerVars

Next ==
  \/ DoOptimizeBegin
  \/ ToolRunSetupFails
  \/ ToolRunSetup
  \/ CreateASTConsumerThrows
  \/ CreateASTConsumer
  \/ Parse
  \/ Collect
  \/ SuppressOn
  \/ ForceParse
  \/ SuppressOff
  \/ Seed
  \/ ReachStep
  \/ ReachDone
  \/ PruneTraverse
  \/ PruneFinalize
  \/ MergeNamespaces
  \/ PPFinalize
  \/ ApplyChangesStep
  \/ GetResultStep
  \/ ToolRunEnd
  \/ DoOptimizeEnd
  \/ DoOptimizeLeave

Spec == Init /\ [][Next]_vars

\* The loop of lines 127-132 runs on: the program is sequential and nothing
\* preempts it.
LiveSpec == Spec /\ WF_vars(ReachStep) /\ WF_vars(ReachDone)

\* ------------------------------------------- the Edit Applier on its own
\* Length of the edit lists handed to the Edit Applier on its own.
MaxEdits == 3
\* The ranges of these lists lie in the first MaxOffset bytes of the buffer.
MaxOffset == 4

\* Any list of delete ranges in original-buffer offsets, in any order.
EditLists ==
  LET R == {<<lo, hi>> : lo \in 1..MaxOffset, hi \in 1..MaxOffset}
      Ranges == {r \in R : r[1] <= r[2]}
  IN UNION {[1..n -> Ranges] : n \in 0..MaxEdits}

\* HandleTranslationUnit at line 155, the passes having scheduled any list
\* of edits.
ApplierInit ==
  /\ cmdLineOptions = <<"-std=c++11">>
  /\ macrosToKeep = {}
  /\ pc = "apply"
  /\ file = NoFile
  /\ ppKeep = {}
  /\ ppBranches = {}
  /\ ppMacros = <<>>
  /\ uses = [x \in Decls |-> {}]
  /\ declsToKeep = {}
  /\ delayedParsedFunctions = {}
  /\ suppress = FALSE
  /\ reported = FALSE
  /\ toParse = {}
  /\ parsed = {}
  /\ queue = {}
  /\ used = {}
  /\ removedDecls = {}
  /\ edits \in EditLists
  /\ rewriteBuf = NoRewriteBuf
  /\ bufValid = TRUE
  /\ result = EmptyString
  /\ ret = 0
  /\ outcome = "none"
  /\ returned = EmptyString
  /\ log = <<>>

ApplierNext ==
  \/ ApplyChangesStep
  \/ GetResultStep

ApplierSpec == ApplierInit /\ [][ApplierNext]_vars

\* ================================================================ claims
RECURSIVE Closure(_, _)
\* The declarations reachable from S in zero or more edges of g.
Closure(S, g) ==
  LET T == S \cup UNION {g[x] : x \in S}
  IN IF T = S THEN S ELSE Closure(T, g)

\* The step named s has been taken in this call.
Logged(s) == \E i \in 1..Len(log) : log[i] = s

\* The reachability step of this call has finished.
ReachFinished == Logged("reach") /\ pc # "reach"

\* The canonical entry points of the file.
EntryPoints == {getCanonicalDecl(lex) : lex \in declsToKeep}

\* The bytes of a text.
Bytes(text) == {text[i] : i \in 1..Len(text)}

Retained(lex, text) ==
  /\ OccRange(lex)[1] \in Bytes(text)
  /\ OccRange(lex)[2] \in Bytes(text)

\* The occurrence lex is wholly inside a scheduled removal.
Deleted(lex, es) ==
  \E i \in 1..Len(es) : es[i][1] <= OccRange(lex)[1] /\ OccRange(lex)[2] <= es[i][2]

\* The occurrences of x in the main file.
OccurrencesOf(f, x) == {o \in Occurrences(f) : getCanonicalDecl(o) = x}

\* The occurrence of x that carries its definition, or, when the main file
\* holds no definition of x, any occurrence of x.
Carriers(f, x) ==
  IF x \in f.def THEN {LexDecl(x, "def")} ELSE OccurrencesOf(f, x)

\* C2: every declaration reachable from an entry point that occurs in the
\* main file keeps an occurrence: once the Lexical Pruner has walked the
\* file, all occurrences of a declaration are deleted only if it is not in
\* the used set, no occurrence that carries the definition of a reachable
\* declaration is ever scheduled for removal, and the text that the run
\* produces from the buffer holds an occurrence of each such declaration.
C2_ReachableKeepsOccurrence ==
  Logged("prune") =>
    \A x \in Decls :
      /\ (OccurrencesOf(file, x) # {} /\ \A o \in OccurrencesOf(file, x) : Deleted(o, edits))
           => x \notin used
      /\ x \in Closure(EntryPoints, uses) =>
           /\ \A o \in Carriers(file, x) : ~Deleted(o, edits)
           /\ (Logged("getResult") /\ result # InlinerError) =>
                \A o \in Carriers(file, x) : Retained(o, result)

\* A reachable declaration, not an entry point itself, whose forward
\* declaration was deleted and whose definition is in the text produced.
C2_Witness ==
  /\ Logged("getResult")
  /\ \E x \in Closure(EntryPoints, uses) :
       /\ x \notin EntryPoints
       /\ Deleted(LexDecl(x, "fwd"), edits)
       /\ x \in file.fwd
       /\ Retained(LexDecl(x, "def"), result)

\* doOptimize ended by throwing.
Threw == outcome \in {"Compilation error", "No source manager"}

\* C3: when tool.run returns non-zero, doOptimize ends by throwing and
\* returns no text, also when the run had computed a result string.
C3_FailedRunThrows ==
  (pc = "done" /\ ret # 0) =>
    /\ outcome = "Compilation error"
    /\ returned = EmptyString

\* A failed run that had computed its result string.
C3_Witness ==
  /\ pc = "done"
  /\ ret # 0
  /\ Logged("getResult")
  /\ result # EmptyString
  /\ Threw

\* C4: in every run of doOptimize that ends in the hard error, no
\* reachability computation, no pruning edit and no edit application has
\* taken place.
C4_NoPruningBeforeHardError ==
  (pc = "done" /\ Threw) =>
    /\ ~Logged("reach")
    /\ ~Logged("prune")
    /\ ~Logged("apply")
    /\ edits = <<>>

\* C5: if no pass emitted an edit and the source manager delivers the main
\* file's buffer, the result string, and the text doOptimize returns, is that
\* buffer byte for byte. (Without the buffer there is no input text to
\* compare with: that case is C6's.)
C5_IdentityLaw ==
  (Logged("getResult") /\ edits = <<>> /\ bufValid) =>
    /\ result = MainBuffer
    /\ (pc = "done" /\ outcome = "returned") => returned = MainBuffer

\* A returned run of a file with an entry point in which no pass emitted an
\* edit.
C5_Witness ==
  /\ pc = "done"
  /\ outcome = "returned"
  /\ Logged("ppFinalize")
  /\ edits = <<>>
  /\ bufValid
  /\ used # {}
  /\ returned = MainBuffer

\* The output buffer cannot be produced: there is no rewrite buffer and the
\* source manager does not deliver the main file's buffer.
NoOutputBuffer == Logged("getResult") /\ ~rewriteBuf.has /\ ~bufValid

\* C6: if the output buffer cannot be produced, the run returns the string
\* "Inliner error" as its result and does not throw.
C6_SentinelReturned ==
  (pc = "done" /\ NoOutputBuffer) =>
    /\ outcome = "returned"
    /\ returned = InlinerError

\* The definition of macro m is scheduled for removal.
MacroDeleted(m) == Covered(MacroPos(m), edits)

\* C7: once the preprocessor Finalize has run, the definition of a macro is
\* deleted only if the macro is not in the keep-list given to the Optimizer's
\* constructor and every expansion site of it lies inside a removed range; the
\* text produced lacks the definition only in that case.
C7_MacroDeletedOnlyIfDead ==
  Logged("ppFinalize") =>
    \A m \in file.macros :
      /\ MacroDeleted(m) =>
           /\ m \notin macrosToKeep
           /\ \A x \in file.sites[m] : Covered(BodyPos(x), edits)
      /\ (Logged("getResult") /\ result # InlinerError /\ MacroPos(m) \notin Bytes(result)) =>
           /\ m \notin macrosToKeep
           /\ \A x \in file.sites[m] : Covered(BodyPos(x), edits)

\* A macro of the keep-list whose only expansion was removed, and whose
\* definition survives Finalize.
C7_Witness ==
  /\ Logged("getResult")
  /\ \E m \in file.macros :
       /\ m \in macrosToKeep
       /\ file.sites[m] # {}
       /\ \A x \in file.sites[m] : Covered(BodyPos(x), edits)
       /\ ~MacroDeleted(m)
       /\ MacroPos(m) \in Bytes(result)

\* The text a run of file f under keep-list keep produces, computed from the
\* file alone.
ExpectedText(f, keep, bufOk) ==
  LET u == Closure(f.keep, f.uses)
      e1 == PrunerEdits(f, u)
      r == PrunerRemoved(f, u)
      e2 == e1 \o PrunerFinalizeEdits(f, r) \o MergerEdits(f, r)
      e3 == e2 \o PPFinalizeEdits(RecordedBranches(f), RecordedMacros(f), keep, e2)
  IN getResult(ApplyChanges(MainBuffer, e3), bufOk, MainBuffer)

\* C8, first part: a call starts from a fresh dependency graph, used set,
\* removed set, edit list and result string.
C8_Fresh ==
  pc = "run" =>
    /\ uses = [x \in Decls |-> {}]
    /\ declsToKeep = {}
    /\ used = {}
    /\ queue = {}
    /\ removedDecls = {}
    /\ edits = <<>>
    /\ ~rewriteBuf.has
    /\ ppBranches = {}
    /\ ppMacros = <<>>
    /\ result = EmptyString

\* C8, second part: how a call ends depends on the file, the options and the
\* keep-list alone, whether or not earlier calls were made.
C8_SameOutcome ==
  pc = "done" =>
    IF ~ValidCmdLine(cmdLineOptions) THEN outcome = "Compilation error"
    ELSE \/ outcome = "No source manager"
         \/ /\ file.error
            /\ outcome = "Compilation error"
         \/ /\ ~file.error
            /\ outcome = "returned"
            /\ returned = ExpectedText(file, macrosToKeep, bufValid)

\* C8: doOptimize carries no state between invocations: no step changes the
\* options or the keep-list, every call starts fresh and ends as the file
\* alone decides.
C8_Stateless ==
  /\ [](C8_Fresh /\ C8_SameOutcome)
  /\ [][cmdLineOptions' = cmdLineOptions /\ macrosToKeep' = macrosToKeep]_vars

\* A call has ended on an Optimizer built with a keep-list, which is ready
\* for the next call.
C8_Witness ==
  /\ pc = "ready"
  /\ macrosToKeep # {}
  /\ result = EmptyString

RECURSIVE SearchInOrder(_, _, _, _)
\* The search of lines 127-132 popping by declaration number, the smallest
\* first (up) or the largest first.
SearchInOrder(q, u, g, up) ==
  IF q = {} THEN u
  ELSE LET d == CHOOSE x \in q : \A y \in q : IF up THEN x <= y ELSE x >= y
       IN SearchInOrder((q \ {d}) \cup (IF d \in u THEN {} ELSE g[d]), u \cup {d}, g, up)

C10_SearchTerminates ==
  (pc = "reach") ~> (pc = "prune" /\ queue = {})

\* A finished search over a graph with a cycle (or self-loop) through a used
\* declaration.
C10_Witness ==
  /\ pc = "prune"
  /\ \E x \in used : x \in Closure(uses[x], uses)

\* How often step s has been taken in this call.
Count(s) == Cardinality({i \in 1..Len(log) : log[i] = s})

\* Step s has been taken in this call, and before any step t.
Before(s, t) ==
  \E i \in 1..Len(log) : log[i] = s /\ \A j \in 1..i : log[j] # t

\* The edits that remove preprocessor text: a macro definition or an inactive
\* branch.
PreprocessorEdit(r) ==
  \/ \E m \in Macros : r = MacroRange(m)
  \/ \E x \in 0..NDecl : r = BranchRange(x)

\* C11: the preprocessor Finalize runs at most once in a run, and when it has
\* run the Lexical Pruner's walk and Finalize and the Namespace Merger have
\* run before it; until it runs the records of the callbacks are what was
\* recorded while parsing and no edit removes preprocessor text.
C11_FinalizeOnceAfterRemovedFinal ==
  /\ Count("ppFinalize") <= 1
  /\ Logged("ppFinalize") =>
       /\ Before("prune", "ppFinalize")
       /\ Before("pruneFinalize", "ppFinalize")
       /\ Before("merge", "ppFinalize")
       /\ removedDecls = PrunerRemoved(file, used)
  /\ (Logged("collect") /\ ~Logged("ppFinalize")) =>
       /\ \A i \in 1..Len(edits) : ~PreprocessorEdit(edits[i])
       /\ ppBranches = RecordedBranches(file)
       /\ ppMacros = RecordedMacros(file)

\* The Finalize has run after declarations were removed and has removed a
\* macro definition or an inactive branch.
C11_Witness ==
  /\ Logged("ppFinalize")
  /\ Count("ppFinalize") = 1
  /\ removedDecls # {}
  /\ \E i \in 1..Len(edits) : PreprocessorEdit(edits[i])

\* C12, the order: applyChanges runs at most once in a run, after the
\* pruner's walk and Finalize, the merger and the preprocessor Finalize, which
\* ran in that order; the rewrite buffer is what the whole edit list gives,
\* and the result is read after applyChanges.
C12_ApplyOrder ==
  /\ Count("apply") <= 1
  /\ Logged("apply") =>
       /\ Before("prune", "pruneFinalize")
       /\ Before("pruneFinalize", "merge")
       /\ Before("merge", "ppFinalize")
       /\ Before("ppFinalize", "apply")
       /\ rewriteBuf = ApplyChanges(MainBuffer, edits)
  /\ Logged("getResult") => Before("apply", "getResult")

\* C12: the edit list is consumed exactly once, in the order above, and no
\* step of the run that follows applyChanges changes the edit list or the
\* rewrite buffer.
C12_AppliedOnce ==
  /\ []C12_ApplyOrder
  /\ [][(Logged("apply") /\ pc' # "ready") =>
          (edits' = edits /\ rewriteBuf' = rewriteBuf)]_vars

\* A run that returned the text of a rewrite buffer made of edits of the
\* pruner and of the preprocessor Finalize.
C12_Witness ==
  /\ pc = "done"
  /\ outcome = "returned"
  /\ Count("apply") = 1
  /\ rewriteBuf.has
  /\ returned = rewriteBuf.text
  /\ \E i \in 1..Len(edits) : PreprocessorEdit(edits[i])
  /\ \E i \in 1..Len(edits) : ~PreprocessorEdit(edits[i])

\* C13: every function of the delayed-parse set has been forced to parse
\* when the dependency edges are collected into the graph, and when a pass
\* reads source ranges to emit edits.
C13_ForcedParseBeforeEdges ==
  \A f \in file.delayed :
    /\ Logged("collect") => f \in parsed
    /\ Logged("prune") => f \in parsed

\* C14, in states: while the forced-parse loop runs the diagnostics are
\* suppressed, no forced parse has reported an error, and a run on valid
\* options of a file that compiles returns, malformed delayed bodies or not.
C14_Suppressed ==
  /\ pc = "forceParse" => suppress
  /\ ~reported
  /\ (pc = "done" /\ ValidCmdLine(cmdLineOptions) /\ ~file.error
        /\ outcome # "No source manager") => outcome = "returned"

\* C14: every forced parse starts and returns with the diagnostics
\* suppressed, so that none of its diagnostics is reported or fails the run.
C14_ForcedParseUnderSuppression ==
  /\ []C14_Suppressed
  /\ [][(pc = "forceParse" /\ parsed' # parsed) => (suppress /\ suppress')]_vars

\* A run that force-parsed a malformed body and returned.
C14_Witness ==
  /\ pc = "done"
  /\ outcome = "returned"
  /\ ret = 0
  /\ \E f \in file.malformed : f \in parsed

\* C15: no step of a run that follows the reachability step changes the used
\* set, and no step that follows the Lexical Pruner's Finalize changes the
\* removed set.
C15_SetsFinal ==
  /\ [][(ReachFinished /\ pc' # "ready") => used' = used]_vars
  /\ [][(Logged("pruneFinalize") /\ pc' # "ready") => removedDecls' = removedDecls]_vars

\* The edits have been applied, the preprocessor Finalize among the passes
\* that emitted them, and both sets are non-empty and as the reachability step
\* and the pruner left them.
C15_Witness ==
  /\ Logged("apply")
  /\ used # {}
  /\ used = Closure(EntryPoints, uses)
  /\ removedDecls # {}
  /\ removedDecls = PrunerRemoved(file, used)
  /\ \E i \in 1..Len(edits) : PreprocessorEdit(edits[i])

\* The bytes of buf that lie in none of the ranges es, in their order.
Remaining(buf, es) ==
  LET keep == {p \in 1..Len(buf) : ~Covered(p, es)}
      F[n \in 0..Len(buf)] ==
        IF n = 0 THEN <<>>
        ELSE IF n \in keep THEN Append(F[n - 1], buf[n]) ELSE F[n - 1]
  IN F[Len(buf)]

\* The list es in the opposite order.
Reversed(es) == [i \in 1..Len(es) |-> es[Len(es) + 1 - i]]

\* Ranges r and s share a byte.
Overlap(r, s) == r[1] <= s[2] /\ s[1] <= r[2]

\* C16: whatever delete ranges were scheduled, overlapping and nested ones
\* included, and in whatever order, the rewrite buffer that applyChanges
\* leaves is the original text without the bytes of the union of the ranges,
\* each removed once; the list in the opposite order gives the same buffer.
C16_UnionRemovedOnce ==
  (Logged("apply") /\ edits # <<>>) =>
    /\ rewriteBuf.has
    /\ rewriteBuf.text = Remaining(MainBuffer, edits)
    /\ ApplyChanges(MainBuffer, Reversed(edits)) = rewriteBuf

\* Applied edits of which two overlap without one holding the other, the one
\* that starts later scheduled first, and two others are nested.
C16_Witness ==
  /\ Logged("apply")
  /\ rewriteBuf.has
  /\ \E i \in 1..Len(edits) : \E j \in (i + 1)..Len(edits) :
       /\ Overlap(edits[i], edits[j])
       /\ edits[j][1] < edits[i][1]
       /\ edits[j][2] < edits[i][2]
  /\ \E i \in 1..Len(edits) : \E j \in 1..Len(edits) :
       /\ i # j
       /\ edits[i][1] < edits[j][1]
       /\ edits[j][2] < edits[i][2]

\* C17: at every iteration of the loop of lines 127-132, every target of an
\* edge out of a used declaration is used or in the worklist, and every
\* declaration used or in the worklist is reachable from an entry point.
C17_LoopInvariant ==
  pc = "reach" =>
    /\ \A x \in used : uses[x] \subseteq (used \cup queue)
    /\ (used \cup queue) \subseteq Closure(EntryPoints, uses)

\* In the middle of a search: a used declaration with an edge to a
\* declaration that waits in the worklist, while another edge leads back to a
\* used one.
C17_Witness ==
  /\ pc = "reach"
  /\ \E x \in used : \E y \in uses[x] : y \in queue /\ y \notin used
  /\ \E x \in used : \E y \in uses[x] : y \in used

\* The steps of HandleTranslationUnit that follow the forced-parse step.
AfterForcedParse ==
  {"seed", "reach", "prune", "pruneFinalize", "merge", "ppFinalize", "apply", "getResult"}

\* C18: when the forced-parse step has ended the suppression of diagnostics
\* is off, whether or not a function was force-parsed, and reachability,
\* pruning, the preprocessor Finalize and the edit application run with it
\* off.
C18_SuppressionOffAfterwards ==
  /\ pc \in AfterForcedParse => Logged("suppressOff")
  /\ Logged("suppressOff") => ~suppress

\* The edits of a file without delayed-parsed function have been applied,
\* line 107 having switched the suppression on.
C18_Witness ==
  /\ Logged("apply")
  /\ Logged("suppressOn")
  /\ file.delayed = {}
  /\ parsed = {}
  /\ edits # <<>>
  /\ ~suppress
====
